---- MODULE Spec2Model ----
(***************************************************************************)
(* TheKilnGod: the SSD1309 status display (display.py) and the hex icon    *)
(* decoders (display.py: load_icon_from_hex; test_image_display.py:        *)
(* parse_hex_data, hex_to_image).                                          *)
(* Around them: format_time on its own, main of test_image_display.py     *)
(* (display_image_on_oled, the animation loop), the sequencer's ping-pong  *)
(* playback, and the DisplayUpdater thread of display_example.py.          *)
(*                                                                         *)
(* Text is a TLA+ string; Len, \o and SubSeq act on it character by        *)
(* character.  An image is a record [size |-> <<w, h>>, lit |-> S], S the   *)
(* set of <<x, y>> on which putpixel(.., 1) was called: Image.new('1',     *)
(* (w, h), 0) starts with every pixel 0.                                   *)
(***************************************************************************)
EXTENDS Integers, Sequences, FiniteSets, TLC

VARIABLES
    hex_text,      \* contents of images/hex/<icon_name>.hex
    file_status,   \* "ok" | "absent" (os.path.exists is False) | "ioerror" (open/read raises)
    icon,          \* outcome of the last load_icon_from_hex / get_icon call
    parsed,        \* what the last parse_hex_data returned: <<data, width, height>>
    image,         \* outcome of the last parse_hex_data + hex_to_image
    initialized,   \* KilnDisplay.initialized
    device,        \* KilnDisplay.device: None or the ssd1309 handle
    oven,          \* what oven.get_state() returns
    scale,         \* config.temp_scale
    snapshot,      \* the arguments of the last update call
    frame,         \* draw operations of the last canvas handed to the device
    outcome        \* how the last display call ended

VARIABLES
    duration,      \* the seconds handed to format_time
    time_text      \* what format_time returned for them

fmtVars == <<duration, time_text>>

\* test_image_display.py: main
VARIABLES
    images,          \* the list parse_multiple_images returned
    anim_pc,         \* where main stands: "off", "call", "paste", "count", "sleep",
                     \* "wait", "done", "killed", "error"
    frame_index,     \* i of the for loop over images
    frame_count,     \* frame_count
    played,          \* the indices of the images handed to device.display, in order
    screen,          \* what the device shows
    fit,             \* the sizes of the last display_image_on_oled call
    interrupted_at,  \* where main stood when KeyboardInterrupt was raised
    direction        \* ping-pong playback: 1 playing forward, -1 playing backward

animVars == <<images, anim_pc, frame_index, frame_count, played, screen, fit,
              interrupted_at, direction>>

\* the threads that call the methods of one KilnDisplay
VARIABLES
    render           \* for each thread: the method it is in, where, and its canvas

renderVars == <<render>>

\* lib/homeassistant_mqtt.py: HomeAssistantMQTT
VARIABLES
    client,          \* HomeAssistantMQTT.client: None or the paho client
    connected,       \* HomeAssistantMQTT.connected
    mqtt_pc,         \* where run stands: "off", "check", "publish_check",
                     \* "publish_send", "sleep"
    topic,           \* which of the eight publish calls of a cycle is next, 1..8
    sent             \* the client.publish calls of the cycle: topic, and connected then

mqttVars == <<client, connected, mqtt_pc, topic, sent>>

\* display_example.py: DisplayUpdater.run
VARIABLES
    updater_pc,      \* where DisplayUpdater.run stands: "off", "test", "get_state",
                     \* "update", "except", "sleep", "dead"
    state_read,      \* state, what oven.get_state() returned
    caught           \* log.error of the except branch of run was called

updaterVars == <<updater_pc, state_read, caught>>

threadVars == <<mqttVars, updaterVars>>

\* the variables of the programs around the status display
laterVars == <<fmtVars, animVars, renderVars, threadVars>>

vars == <<hex_text, file_status, icon, parsed, image, initialized, device,
          oven, scale, snapshot, frame, outcome, laterVars>>

\* Python values: None, a value, and (in a dict) a key that is not there
PyNone == [none |-> TRUE]
Val(v) == [none |-> FALSE, v |-> v]
Missing == [missing |-> TRUE]

(***************************************************************************)
(* Characters and numbers                                                  *)
(***************************************************************************)
Char(s, i) == IF 1 <= i /\ i <= Len(s) THEN SubSeq(s, i, i) ELSE ""

Digits == <<"0", "1", "2", "3", "4", "5", "6", "7", "8", "9">>
HexLower == <<"a", "b", "c", "d", "e", "f">>
HexUpper == <<"A", "B", "C", "D", "E", "F">>

IsDigit(c) == \E d \in 1..10 : Digits[d] = c
IsHexDigit(c) == IsDigit(c) \/ (\E d \in 1..6 : HexLower[d] = c \/ HexUpper[d] = c)
IsSpace(c) == c \in {" ", "\t", "\r"}

DigitVal(c) == (CHOOSE d \in 1..10 : Digits[d] = c) - 1
HexDigitVal(c) ==
    IF IsDigit(c) THEN DigitVal(c)
    ELSE 9 + (CHOOSE d \in 1..6 : HexLower[d] = c \/ HexUpper[d] = c)

\* int(s): s a run of decimal digits
RECURSIVE IntDec(_)
IntDec(s) ==
    IF Len(s) = 0 THEN 0
    ELSE 10 * IntDec(SubSeq(s, 1, Len(s) - 1)) + DigitVal(Char(s, Len(s)))

\* int(s, 16): s a run of hex digits
RECURSIVE IntHex(_)
IntHex(s) ==
    IF Len(s) = 0 THEN 0
    ELSE 16 * IntHex(SubSeq(s, 1, Len(s) - 1)) + HexDigitVal(Char(s, Len(s)))

\* the end (exclusive) of the longest run of decimal digits of s starting at i
RECURSIVE DigitRunEnd(_, _)
DigitRunEnd(s, i) == IF IsDigit(Char(s, i)) THEN DigitRunEnd(s, i + 1) ELSE i

\* faulty variant: the pattern 0x([0-9a-fA-F]) without its +, one hex digit per token
HexRunEnd_OneDigit(s, i) == i + 1

RECURSIVE HexRunEnd(_, _)
HexRunEnd(s, i) == IF IsHexDigit(Char(s, i)) THEN HexRunEnd(s, i + 1) ELSE i

(***************************************************************************)
(* str.split('\n'), '\n'.join, str.strip().startswith('//')                 *)
(***************************************************************************)
RECURSIVE SplitFrom(_, _, _)
SplitFrom(s, start, i) ==
    IF i > Len(s) THEN <<SubSeq(s, start, Len(s))>>
    ELSE IF Char(s, i) = "\n"
         THEN <<SubSeq(s, start, i - 1)>> \o SplitFrom(s, i + 1, i + 1)
         ELSE SplitFrom(s, start, i + 1)

SplitLines(s) == SplitFrom(s, 1, 1)

RECURSIVE JoinLines(_)
JoinLines(ls) ==
    IF Len(ls) = 0 THEN ""
    ELSE IF Len(ls) = 1 THEN ls[1]
    ELSE ls[1] \o "\n" \o JoinLines(Tail(ls))

RECURSIVE SkipSpace(_, _)
SkipSpace(s, i) == IF IsSpace(Char(s, i)) THEN SkipSpace(s, i + 1) ELSE i

\* faulty variant: line.startswith('//') without strip()
IsCommentLine_NoStrip(line) == Char(line, 1) = "/" /\ Char(line, 2) = "/"

IsCommentLine(line) ==
    LET i == SkipSpace(line, 1)
    IN  Char(line, i) = "/" /\ Char(line, i + 1) = "/"

RECURSIVE SelectLines(_)
SelectLines(ls) ==
    IF Len(ls) = 0 THEN <<>>
    ELSE IF IsCommentLine(ls[1]) THEN SelectLines(Tail(ls))
    ELSE <<ls[1]>> \o SelectLines(Tail(ls))

StripComments(text) == JoinLines(SelectLines(SplitLines(text)))

(***************************************************************************)
(* Formatting numbers                                                      *)
(***************************************************************************)
\* str(n) for n >= 0
RECURSIVE DecStr(_)
DecStr(n) == IF n < 10 THEN Digits[n + 1] ELSE DecStr(n \div 10) \o Digits[(n % 10) + 1]

(***************************************************************************)
(* re.search(r'(\d+)x(\d+)px', line, re.IGNORECASE)                        *)
(* Both \d+ are greedy; a shorter run is followed by a digit, which is      *)
(* neither 'x' nor 'p', so only the longest runs can match at a position.  *)
(***************************************************************************)
NoMatch == <<>>

MatchDimAt(line, p) ==
    LET e1 == DigitRunEnd(line, p)
        e2 == DigitRunEnd(line, e1 + 1)
    IN  IF /\ e1 > p
           /\ Char(line, e1) \in {"x", "X"}
           /\ e2 > e1 + 1
           /\ Char(line, e2) \in {"p", "P"}
           /\ Char(line, e2 + 1) \in {"x", "X"}
        THEN <<IntDec(SubSeq(line, p, e1 - 1)), IntDec(SubSeq(line, e1 + 1, e2 - 1))>>
        ELSE NoMatch

RECURSIVE SearchDimFrom(_, _)
SearchDimFrom(line, p) ==
    IF p > Len(line) THEN NoMatch
    ELSE IF MatchDimAt(line, p) # NoMatch THEN MatchDimAt(line, p)
    ELSE SearchDimFrom(line, p + 1)

SearchDim(line) == SearchDimFrom(line, 1)

\* faulty variant: the loop without its break, the last match wins
RECURSIVE FirstDim_LastWins(_, _)
FirstDim_LastWins(ls, default) ==
    IF Len(ls) = 0 THEN default
    ELSE FirstDim_LastWins(Tail(ls),
                           IF SearchDim(ls[1]) # NoMatch THEN SearchDim(ls[1]) ELSE default)

\* for line in text.split('\n'): match = re.search(..); if match: ...; break
RECURSIVE FirstDim(_, _)
FirstDim(ls, default) ==
    IF Len(ls) = 0 THEN default
    ELSE IF SearchDim(ls[1]) # NoMatch THEN SearchDim(ls[1])
    ELSE FirstDim(Tail(ls), default)

(***************************************************************************)
(* re.findall(r'0x([0-9a-fA-F]+)', text): leftmost, non-overlapping,       *)
(* case-sensitive "0x", the hex run greedy.                                *)
(***************************************************************************)
RECURSIVE FindAllHexFrom(_, _)
FindAllHexFrom(text, i) ==
    IF i > Len(text) THEN <<>>
    ELSE IF /\ Char(text, i) = "0"
            /\ Char(text, i + 1) = "x"
            /\ IsHexDigit(Char(text, i + 2))
         THEN LET e == HexRunEnd(text, i + 2)
              IN  <<SubSeq(text, i + 2, e - 1)>> \o FindAllHexFrom(text, e)
         ELSE FindAllHexFrom(text, i + 1)

FindAllHex(text) == FindAllHexFrom(text, 1)

\* [int(hex_val, 16) for hex_val in matches]
HexInts(matches) == [k \in 1..Len(matches) |-> IntHex(matches[k])]

Zeros(n) == [k \in 1..n |-> 0]

\* byte_val & (1 << bit), as a truth value
BitSet(byte_val, bit) == (byte_val \div (2 ^ bit)) % 2 = 1

(***************************************************************************)
(* Images                                                                  *)
(***************************************************************************)
NoIcon == PyNone
NewImage(width, height, lit) == [none |-> FALSE, size |-> <<width, height>>, lit |-> lit]

Returned(v) == [called |-> TRUE, raised |-> FALSE, ret |-> v]
Raised == [called |-> TRUE, raised |-> TRUE, ret |-> NoIcon]
NotCalled == [called |-> FALSE, raised |-> FALSE, ret |-> NoIcon]

(***************************************************************************)
(* display.py: KilnDisplay.load_icon_from_hex                              *)
(***************************************************************************)
IconDefaultWidth == 16
IconDefaultHeight == 16

IconDimensions(text) == FirstDim(SplitLines(text), <<IconDefaultWidth, IconDefaultHeight>>)

IconHexData(text) == HexInts(FindAllHex(StripComments(text)))

\* faulty variant: the zero bytes put in front of the data
IconReconcile_PadFront(hex_data, width, height) ==
    LET expected_bytes == (width * height) \div 8
    IN  IF Len(hex_data) < expected_bytes
        THEN Zeros(expected_bytes - Len(hex_data)) \o hex_data
        ELSE SubSeq(hex_data, 1, expected_bytes)

\* faulty variant: hex_data[-expected_bytes:], the last bytes kept
IconReconcile_KeepLast(hex_data, width, height) ==
    LET expected_bytes == (width * height) \div 8
    IN  IF Len(hex_data) < expected_bytes
        THEN hex_data \o Zeros(expected_bytes - Len(hex_data))
        ELSE SubSeq(hex_data, Len(hex_data) - expected_bytes + 1, Len(hex_data))

\* lines 231-238: pad with zero bytes or cut to expected_bytes
IconReconcile(hex_data, width, height) ==
    LET expected_bytes == (width * height) \div 8
    IN  IF Len(hex_data) # expected_bytes
        THEN IF Len(hex_data) < expected_bytes
             THEN hex_data \o Zeros(expected_bytes - Len(hex_data))
             ELSE SubSeq(hex_data, 1, expected_bytes)
        ELSE hex_data

\* faulty variant: for bit in range(8), the least significant bit first
RECURSIVE IconByteLoop_LsbFirst(_, _, _, _, _)
IconByteLoop_LsbFirst(byte_val, bit, pixel_index, width, height) ==
    IF bit < 0 \/ pixel_index >= width * height
    THEN [lit |-> {}, pixel_index |-> pixel_index]
    ELSE LET x == pixel_index % width
             y == pixel_index \div width
             rest == IconByteLoop_LsbFirst(byte_val, bit - 1, pixel_index + 1, width, height)
         IN  [lit |-> (IF BitSet(byte_val, 7 - bit) THEN {<<x, y>>} ELSE {}) \cup rest.lit,
              pixel_index |-> rest.pixel_index]

\* lines 244-251: the inner loop over one byte, bit 7 down to 0
RECURSIVE IconByteLoop(_, _, _, _, _)
IconByteLoop(byte_val, bit, pixel_index, width, height) ==
    IF bit < 0 \/ pixel_index >= width * height
    THEN [lit |-> {}, pixel_index |-> pixel_index]
    ELSE LET x == pixel_index % width
             y == pixel_index \div width
             rest == IconByteLoop(byte_val, bit - 1, pixel_index + 1, width, height)
         IN  [lit |-> (IF BitSet(byte_val, bit) THEN {<<x, y>>} ELSE {}) \cup rest.lit,
              pixel_index |-> rest.pixel_index]

\* lines 242-251: the loop over hex_data[lo..hi], byte after byte in order; the
\* range is halved only to keep the evaluation shallow
RECURSIVE IconPixelLoop(_, _, _, _, _, _)
IconPixelLoop(hex_data, lo, hi, pixel_index, width, height) ==
    IF lo > hi THEN [lit |-> {}, pixel_index |-> pixel_index]
    ELSE IF lo = hi THEN IconByteLoop(hex_data[lo], 7, pixel_index, width, height)
    ELSE LET mid == (lo + hi) \div 2
             first == IconPixelLoop(hex_data, lo, mid, pixel_index, width, height)
             rest == IconPixelLoop(hex_data, mid + 1, hi, first.pixel_index, width, height)
         IN  [lit |-> first.lit \cup rest.lit, pixel_index |-> rest.pixel_index]

\* lines 213-253: the body of the try block once the file has been read
IconDecode(text) ==
    LET dim == IconDimensions(text)
        width == dim[1]
        height == dim[2]
        hex_data == IconReconcile(IconHexData(text), width, height)
    IN  NewImage(width, height, IconPixelLoop(hex_data, 1, Len(hex_data), 0, width, height).lit)

\* Image.putpixel raises IndexError outside the image
InImage(xy, width, height) ==
    0 <= xy[1] /\ xy[1] < width /\ 0 <= xy[2] /\ xy[2] < height

PutPixelRaises(img) == \E xy \in img.lit : ~InImage(xy, img.size[1], img.size[2])

\* faulty variant: a size mismatch raised as an error instead of padded or cut
IconTry_Strict(status, text) ==
    IF status = "ioerror" THEN Raised
    ELSE IF Len(IconHexData(text)) # (IconDimensions(text)[1] * IconDimensions(text)[2]) \div 8
         THEN Raised
         ELSE Returned(IconDecode(text))

\* lines 210-253: the try block; open and read may raise, and so may putpixel
IconTry(status, text) ==
    IF status = "ioerror" THEN Raised
    ELSE IF PutPixelRaises(IconDecode(text)) THEN Raised
    ELSE Returned(IconDecode(text))

\* faulty variant: no except clause, the exception of open reaches the caller
load_icon_from_hex_NoExcept(status, text) ==
    IF status = "absent" THEN Returned(NoIcon) ELSE IconTry(status, text)

\* lines 205-257: a missing file and any exception of the try block give None
load_icon_from_hex(status, text) ==
    IF status = "absent" THEN Returned(NoIcon)
    ELSE IF IconTry(status, text).raised THEN Returned(NoIcon)
    ELSE IconTry(status, text)

\* lines 259-274
get_icon(status, text) == load_icon_from_hex(status, text)

(***************************************************************************)
(* test_image_display.py: parse_hex_data, hex_to_image                     *)
(***************************************************************************)
ParseDefaultWidth == 64
ParseDefaultHeight == 64

\* faulty variant: the tokens read from the comment lines as well
parse_hex_data_KeepComments(text) ==
    LET dim == FirstDim(SplitLines(text), <<ParseDefaultWidth, ParseDefaultHeight>>)
    IN  <<HexInts(FindAllHex(text)), dim[1], dim[2]>>

\* returns <<data, width, height>>
parse_hex_data(text) ==
    LET dim == FirstDim(SplitLines(text), <<ParseDefaultWidth, ParseDefaultHeight>>)
    IN  <<HexInts(FindAllHex(StripComments(text))), dim[1], dim[2]>>

RECURSIVE ImageByteLoop(_, _, _, _, _)
ImageByteLoop(byte_val, bit, pixel_index, width, height) ==
    IF bit < 0 \/ pixel_index >= width * height
    THEN [lit |-> {}, pixel_index |-> pixel_index]
    ELSE LET x == pixel_index % width
             y == pixel_index \div width
             rest == ImageByteLoop(byte_val, bit - 1, pixel_index + 1, width, height)
         IN  [lit |-> (IF BitSet(byte_val, bit) THEN {<<x, y>>} ELSE {}) \cup rest.lit,
              pixel_index |-> rest.pixel_index]

RECURSIVE ImagePixelLoop(_, _, _, _, _, _)
ImagePixelLoop(hex_data, lo, hi, pixel_index, width, height) ==
    IF lo > hi THEN [lit |-> {}, pixel_index |-> pixel_index]
    ELSE IF lo = hi THEN ImageByteLoop(hex_data[lo], 7, pixel_index, width, height)
    ELSE LET mid == (lo + hi) \div 2
             first == ImagePixelLoop(hex_data, lo, mid, pixel_index, width, height)
             rest == ImagePixelLoop(hex_data, mid + 1, hi, first.pixel_index, width, height)
         IN  [lit |-> first.lit \cup rest.lit, pixel_index |-> rest.pixel_index]

hex_to_image(hex_data, width, height) ==
    LET expected_bytes == (width * height) \div 8
        data == IF Len(hex_data) < expected_bytes
                THEN hex_data \o Zeros(expected_bytes - Len(hex_data))
                ELSE IF Len(hex_data) > expected_bytes
                     THEN SubSeq(hex_data, 1, expected_bytes)
                     ELSE hex_data
    IN  NewImage(width, height, ImagePixelLoop(data, 1, Len(data), 0, width, height).lit)

\* parse_multiple_images, lines 155-162: an exception skips the image
ParseImage(text) ==
    LET p == parse_hex_data(text)
        img == hex_to_image(p[1], p[2], p[3])
    IN  IF PutPixelRaises(img) THEN Raised ELSE Returned(img)

(***************************************************************************)
(* display.py: KilnDisplay                                                 *)
(***************************************************************************)
\* lines 45-67: the fields after __init__.  bringup names the first call of the
\* try block that raises: "i2c", "ssd1309", "clear", or "ok" when none does.
Construct(config_enabled, bringup) ==
    IF ~config_enabled THEN [device |-> PyNone, initialized |-> FALSE]
    ELSE IF bringup \in {"i2c", "ssd1309"} THEN [device |-> PyNone, initialized |-> FALSE]
    ELSE IF bringup = "clear" THEN [device |-> Val("ssd1309"), initialized |-> FALSE]
    ELSE [device |-> Val("ssd1309"), initialized |-> TRUE]

\* str.lower() on the scale letters
Lower(c) == IF c = "F" THEN "f" ELSE IF c = "C" THEN "c" ELSE c

\* f"{n:.0f}" and f"{n}" for an integer n
IntStr(n) == IF n < 0 THEN "-" \o DecStr(0 - n) ELSE DecStr(n)

\* faulty variant: f"{n}", no zero padding
Pad2_NoPad(n) == DecStr(n)

\* f"{n:02d}" for n >= 0
Pad2(n) == IF n < 10 THEN "0" \o DecStr(n) ELSE DecStr(n)

\* lines 69-76
format_temperature(temp, temp_scale) ==
    IF temp.none THEN "---"
    ELSE IF Lower(temp_scale) = "f" THEN IntStr(temp.v) \o "°F"
    ELSE IntStr(temp.v) \o "°C"

\* faulty variant: the hours written also when there are none
format_time_AlwaysHours(seconds) ==
    IF seconds.none \/ seconds.v < 0 THEN "--:--"
    ELSE Pad2(seconds.v \div 3600) \o ":" \o Pad2((seconds.v % 3600) \div 60) \o ":"
             \o Pad2(seconds.v % 60)

\* lines 78-90
format_time(seconds) ==
    IF seconds.none \/ seconds.v < 0 THEN "--:--"
    ELSE LET hours == seconds.v \div 3600
             minutes == (seconds.v % 3600) \div 60
             secs == seconds.v % 60
         IN  IF hours > 0
             THEN Pad2(hours) \o ":" \o Pad2(minutes) \o ":" \o Pad2(secs)
             ELSE Pad2(minutes) \o ":" \o Pad2(secs)

\* dict.get(key, default)
Get(d, key, default) == IF d[key] = Missing THEN default ELSE d[key]

\* f"{state}"
StateStr(state) == IF state.none THEN "None" ELSE state.v

Text(x, y, text) == [op |-> "text", pos |-> <<x, y>>, text |-> text]
Bitmap(x, y, img) == [op |-> "bitmap", pos |-> <<x, y>>, image |-> img]

\* faulty variant: the profile name never cut
StateLine_NoCut(state, profile) ==
    IF ~profile.none /\ profile.v # ""
    THEN StateStr(state) \o " - " \o profile.v
    ELSE StateStr(state)

\* lines 125-130: the text of line 1
StateLine(state, profile) ==
    IF ~profile.none /\ profile.v # ""
    THEN LET profile_text == IF Len(profile.v) > 12 THEN SubSeq(profile.v, 1, 12)
                             ELSE profile.v
         IN  StateStr(state) \o " - " \o profile_text
    ELSE StateStr(state)

\* faulty variant: the time lines for a running kiln only
Timed_RunningOnly(state, totaltime) ==
    (~state.none /\ state.v = "RUNNING") /\ totaltime.v > 0

\* line 142: state in ['RUNNING', 'PAUSED'] and totaltime > 0
Timed(state, totaltime) ==
    (~state.none /\ state.v \in {"RUNNING", "PAUSED"}) /\ totaltime.v > 0

\* faulty variant: a rate of zero shown as well
RateLine_FromZero(heat_rate) ==
    IF heat_rate.v >= 0
    THEN << Text(0, 36, "Rate: " \o IntStr(heat_rate.v) \o "°/hr") >>
    ELSE << >>

\* lines 153-157: the else branch of line 142
RateLine(heat_rate) ==
    IF heat_rate.v > 0
    THEN << Text(0, 36, "Rate: " \o IntStr(heat_rate.v) \o "°/hr") >>
    ELSE << >>

\* lines 112-157: the try block of update.  A comparison of None with 0, or
\* None - runtime, raises TypeError; the canvas is handed to the device only
\* when its block ends without an exception.
UpdateTry(oven_state, temp_scale) ==
    LET temp == Get(oven_state, "temperature", Val(0))
        target == Get(oven_state, "target", Val(0))
        state == Get(oven_state, "state", Val("IDLE"))
        profile == Get(oven_state, "profile", PyNone)
        runtime == Get(oven_state, "runtime", Val(0))
        totaltime == Get(oven_state, "totaltime", Val(0))
        heat_rate == Get(oven_state, "heat_rate", Val(0))
        raises121 == totaltime.none \/ (totaltime.v > 0 /\ runtime.none)
        time_remaining == IF totaltime.v > 0 THEN Val(totaltime.v - runtime.v) ELSE Val(0)
        lines123 == << Text(0, 0, StateLine(state, profile)),
                       Text(0, 12, "Temp: " \o format_temperature(temp, temp_scale)),
                       Text(0, 24, "Targ: " \o format_temperature(target, temp_scale)) >>
        rate == IF heat_rate.v > 0 THEN " " \o IntStr(heat_rate.v) \o "°/hr" ELSE ""
    IN  IF raises121 \/ heat_rate.none
        THEN [raised |-> TRUE, frame |-> <<>>]
        ELSE IF Timed(state, totaltime)
        THEN [raised |-> FALSE,
              frame |-> lines123 \o
                  << Text(0, 36, "Time: " \o format_time(runtime) \o " / "
                                         \o format_time(totaltime)),
                     Text(0, 48, "Rem: " \o format_time(time_remaining) \o rate) >>]
        ELSE [raised |-> FALSE, frame |-> lines123 \o RateLine(heat_rate)]

\* lines 107-160: the frame on the device and how the call ended
update(inited, shown, oven_state, temp_scale) ==
    IF ~inited THEN [frame |-> shown, outcome |-> "skipped"]
    ELSE IF UpdateTry(oven_state, temp_scale).raised
         THEN [frame |-> shown, outcome |-> "logged"]
         ELSE [frame |-> UpdateTry(oven_state, temp_scale).frame, outcome |-> "drawn"]


(***************************************************************************)
(* Icon sources                                                            *)
(***************************************************************************)
MaxLines == 2

SourceLines ==
    { "// 4x2px",
      "// 4x4px",
      "  // 3X3PX 0x7",
      "// 0xFF",
      "10x2px",
      "icon 2x4px 8x1px",
      "0x80",
      "0x3c, 0xA5",
      "0x3c 0x1FF",
      "0X0F 0x 0x01",
      "" }

RECURSIVE TextsOf(_)
TextsOf(n) ==
    IF n = 0 THEN {""}
    ELSE IF n = 1 THEN SourceLines
    ELSE {t \o "\n" \o l : t \in TextsOf(n - 1), l \in SourceLines}

Sources == UNION {TextsOf(n) : n \in 0..MaxLines}

(***************************************************************************)
(* Bitmaps written out as hex icon files: a comment line declaring WxHpx,  *)
(* then one "0xNN" token for every 8 pixels, MSB first, row-major          *)
(***************************************************************************)
MaxLit == 2

\* the images of an animation, and the frames it is followed for
MaxImages == 3
MaxShown == 9

\* the frames of a ping-pong sequence, and the frames it is followed for
MaxPingPong == 5
MaxPlayed == 17

RoundTripSizes == {<<8, 1>>, <<4, 2>>, <<2, 4>>, <<4, 4>>}

Grid(width, height) == (0..(width - 1)) \X (0..(height - 1))

RECURSIVE SubsetsUpTo(_, _)
SubsetsUpTo(S, n) ==
    IF n = 0 THEN {{}}
    ELSE SubsetsUpTo(S, n - 1) \cup {T \cup {x} : T \in SubsetsUpTo(S, n - 1), x \in S}

Bitmaps ==
    UNION { {NewImage(wh[1], wh[2], lit) :
                lit \in SubsetsUpTo(Grid(wh[1], wh[2]), MaxLit) \cup {Grid(wh[1], wh[2])}}
            : wh \in RoundTripSizes }

\* the bit at row-major index i of a bitmap
PixelAt(img, i) == <<i % img.size[1], i \div img.size[1]>> \in img.lit

\* "0x%02X"
HexByteStr(b) ==
    LET hex == Digits \o HexUpper
    IN  "0x" \o hex[(b \div 16) + 1] \o hex[(b % 16) + 1]

RECURSIVE PackBits(_, _, _)
PackBits(img, k, j) ==
    IF j > 7 THEN 0
    ELSE (IF PixelAt(img, 8 * k + j) THEN 2 ^ (7 - j) ELSE 0) + PackBits(img, k, j + 1)

RECURSIVE EncodeBytes(_, _)
EncodeBytes(img, k) ==
    IF 8 * k >= img.size[1] * img.size[2] THEN ""
    ELSE (IF k > 0 THEN ", " ELSE "") \o HexByteStr(PackBits(img, k, 0)) \o EncodeBytes(img, k + 1)

Encode(img) ==
    "// " \o DecStr(img.size[1]) \o "x" \o DecStr(img.size[2]) \o "px\n" \o EncodeBytes(img, 0)

EncodedPairs == {<<Encode(b), b>> : b \in Bitmaps}
EncodedSources == {p[1] : p \in EncodedPairs}

(***************************************************************************)
(* Actions of the decoders                                                 *)
(***************************************************************************)
displayVars == <<initialized, device, oven, scale, snapshot, frame, outcome>>

\* display.get_icon(name), as test_icons.py calls it
GetIcon ==
    /\ icon' = get_icon(file_status, hex_text)
    /\ UNCHANGED <<hex_text, file_status, parsed, image, displayVars, laterVars>>

\* test_image_display.py: parse_multiple_images on the text of a file that was read
ParseImages ==
    /\ file_status = "ok"
    /\ parsed' = Val(parse_hex_data(hex_text))
    /\ image' = ParseImage(hex_text)
    /\ UNCHANGED <<hex_text, file_status, icon, displayVars, laterVars>>


(***************************************************************************)
(* The display program: one KilnDisplay, the oven states handed to update, *)
(* and the icon frames of test_icons.py                                    *)
(***************************************************************************)
States == {Val("IDLE"), Val("RUNNING"), Val("PAUSED")}
Profiles == {Missing, PyNone, Val(""), Val("Cone 10"), Val("Cone 6 Glaze"),
             Val("Cone 06 Glaze"), Val("Slow Bisque 04")}
Temperatures == {PyNone, Val(75), Val(1250)}
Targets == {Val(0), Val(1300)}
Runtimes == {PyNone, Val(0), Val(3600), Val(9000)}
TotalTimes == {Missing, PyNone, Val(0), Val(7200)}
HeatRates == {PyNone, Val(-20), Val(0), Val(150)}
Scales == {"f", "C"}

Snapshots ==
    [state : States, profile : Profiles, temperature : Temperatures, target : Targets,
     runtime : Runtimes, totaltime : TotalTimes, heat_rate : HeatRates]

\* the icon files of the display program
IconFiles == {"// 'flame', 4x4px\n0x18, 0x3c", "0x80"}

\* display_example.py lines 83-111, and an oven that reports no total time
ExampleStates ==
    { [state |-> Val("IDLE"), profile |-> PyNone, temperature |-> Val(75), target |-> Val(0),
       runtime |-> Val(0), totaltime |-> Val(0), heat_rate |-> Val(0)],
      [state |-> Val("RUNNING"), profile |-> Val("Cone 6 Glaze"), temperature |-> Val(1250),
       target |-> Val(1300), runtime |-> Val(3600), totaltime |-> Val(7200),
       heat_rate |-> Val(150)],
      [state |-> Val("PAUSED"), profile |-> Val("Cone 10"), temperature |-> Val(1800),
       target |-> Val(1800), runtime |-> Val(5400), totaltime |-> Val(10800),
       heat_rate |-> Val(0)],
      [state |-> Val("RUNNING"), profile |-> Val("Slow Bisque 04"), temperature |-> PyNone,
       target |-> Val(1000), runtime |-> Val(60), totaltime |-> PyNone,
       heat_rate |-> Val(90)] }

iconVars == <<hex_text, file_status, icon, parsed, image>>

\* display_example.py lines 48-51: state = oven.get_state(); display.update(state, temp_scale)
Update ==
    LET r == update(initialized, frame, oven, scale)
    IN  /\ snapshot' = Val([oven_state |-> oven, temp_scale |-> scale])
        /\ frame' = r.frame
        /\ outcome' = r.outcome
        /\ UNCHANGED <<iconVars, initialized, device, oven, scale, laterVars>>

\* the kiln moves on between two updates
OvenStep ==
    /\ oven' \in ExampleStates \ {oven}
    /\ UNCHANGED <<iconVars, initialized, device, scale, snapshot, frame, outcome, laterVars>>

\* test_icons.py lines 51-55: one canvas of the loop, the icon drawn when there is one
DrawIconFrame ==
    /\ initialized
    /\ icon.called /\ ~icon.raised
    /\ frame' = (IF icon.ret.none THEN <<>> ELSE <<Bitmap(0, 0, icon.ret)>>)
                    \o <<Text(20, 2, "Temp: 1250°F")>>
    /\ outcome' = "icons"
    /\ snapshot' = PyNone
    /\ UNCHANGED <<iconVars, initialized, device, oven, scale, laterVars>>

Next == Update \/ OvenStep \/ GetIcon \/ DrawIconFrame

InitDisplay ==
    /\ \E config_enabled \in BOOLEAN, bringup \in {"ok", "i2c", "ssd1309", "clear"} :
           /\ initialized = Construct(config_enabled, bringup).initialized
           /\ device = Construct(config_enabled, bringup).device
    /\ snapshot = PyNone
    /\ frame = <<>>
    /\ outcome = "none"

\* format_time not called
InitFmtIdle ==
    /\ duration = PyNone
    /\ time_text = PyNone

\* what a device shows after clear(), and after display(img)
Cleared == [cleared |-> TRUE]
Showing(img) == [cleared |-> FALSE, image |-> img]

\* main of test_image_display.py not started
InitAnimIdle ==
    /\ images = <<>>
    /\ anim_pc = "off"
    /\ frame_index = 0
    /\ frame_count = 0
    /\ played = <<>>
    /\ screen = Cleared
    /\ fit = NotCalled
    /\ interrupted_at = "none"
    /\ direction = 1

\* DisplayUpdater's thread, and another thread that holds its KilnDisplay
Threads == {"updater", "caller"}

\* a thread outside the display's methods
NotRendering == [pc |-> "idle", op |-> "none", canvas |-> <<>>]

InitRenderIdle == render = [t \in Threads |-> NotRendering]

\* HomeAssistantMQTT not made
InitMqttIdle ==
    /\ client = PyNone
    /\ connected = FALSE
    /\ mqtt_pc = "off"
    /\ topic = 1
    /\ sent = <<>>

\* DisplayUpdater not started
InitUpdaterIdle ==
    /\ updater_pc = "off"
    /\ state_read = PyNone
    /\ caught = FALSE

InitThreadsIdle == InitMqttIdle /\ InitUpdaterIdle

\* the programs around the status display not started
InitLaterIdle == InitFmtIdle /\ InitAnimIdle /\ InitRenderIdle /\ InitThreadsIdle

InitIcons ==
    /\ icon = NotCalled
    /\ image = NotCalled
    /\ parsed = PyNone

Init ==
    /\ InitDisplay
    /\ InitIcons
    /\ \/ file_status = "ok" /\ hex_text \in IconFiles
       \/ file_status \in {"absent", "ioerror"} /\ hex_text = ""
    /\ oven \in ExampleStates
    /\ scale = "f"
    /\ InitLaterIdle

Spec == Init /\ [][Next]_vars

(***************************************************************************)
(* The icon decoders on every source of Sources                            *)
(***************************************************************************)
NextDecoder == GetIcon \/ ParseImages

InitDecoder ==
    /\ initialized = Construct(FALSE, "ok").initialized
    /\ device = Construct(FALSE, "ok").device
    /\ snapshot = PyNone
    /\ frame = <<>>
    /\ outcome = "none"
    /\ InitIcons
    /\ hex_text \in Sources \cup EncodedSources
    /\ file_status = "ok"
    /\ oven \in {s \in ExampleStates : s.state = Val("IDLE")}
    /\ scale = "f"
    /\ InitLaterIdle

SpecDecoder == InitDecoder /\ [][NextDecoder]_vars

(***************************************************************************)
(* update on every oven state of Snapshots                                 *)
(***************************************************************************)
NextLayout == Update

InitLayout ==
    /\ InitDisplay
    /\ InitIcons
    /\ hex_text = ""
    /\ file_status = "absent"
    /\ oven \in Snapshots
    /\ scale \in Scales
    /\ InitLaterIdle

SpecLayout == InitLayout /\ [][NextLayout]_vars

(***************************************************************************)
(* format_time on the durations of Durations                               *)
(***************************************************************************)
\* seconds of h hours, m minutes and s seconds, negative ones, and None
Durations ==
    {PyNone, Val(-1), Val(-3600)}
        \cup { Val(h * 3600 + m * 60 + s) :
                   h \in {0, 1, 2, 9, 10, 99, 100, 250}, m \in {0, 1, 10, 59},
                   s \in {0, 1, 9, 10, 59} }

\* the icon and display variables of a program that only formats times
InitOthersIdle ==
    /\ initialized = Construct(FALSE, "ok").initialized
    /\ device = Construct(FALSE, "ok").device
    /\ snapshot = PyNone
    /\ frame = <<>>
    /\ outcome = "none"
    /\ InitIcons
    /\ hex_text = ""
    /\ file_status = "absent"
    /\ oven \in {s \in ExampleStates : s.state = Val("IDLE")}
    /\ scale = "f"
    /\ InitRenderIdle
    /\ InitThreadsIdle

\* display.format_time(seconds)
FormatTime ==
    /\ time_text' = Val(format_time(duration))
    /\ UNCHANGED <<iconVars, displayVars, duration, animVars, renderVars, threadVars>>

NextFormat == FormatTime

InitFormat ==
    /\ InitOthersIdle
    /\ duration \in Durations
    /\ time_text = PyNone
    /\ InitAnimIdle

SpecFormat == InitFormat /\ [][NextFormat]_vars

(***************************************************************************)
(* test_image_display.py: display_image_on_oled                            *)
(***************************************************************************)
\* the ssd1309 of main, made with luma's default size
DisplayWidth == 128
DisplayHeight == 64

\* the <<n, num, den>> of ImageSizes with den a divisor of n * num for which the
\* double n * (num / den) lies below the integer n * num / den
RoundsBelow == { <<98, 64, 98>>, <<98, 64, 196>>, <<196, 64, 196>> }

\* int(n * (num / den)) in double arithmetic, num / den rounded first
IntOfProduct(n, num, den) ==
    IF <<n, num, den>> \in RoundsBelow THEN ((n * num) \div den) - 1
    ELSE (n * num) \div den

\* line 92
NeedsScale(size) == size[1] > DisplayWidth \/ size[2] > DisplayHeight

\* line 94: min(display_width / img_width, display_height / img_height), as the
\* pair <<numerator, denominator>>
ScaleOf(size) ==
    IF DisplayWidth * size[2] <= DisplayHeight * size[1]
    THEN <<DisplayWidth, size[1]>>
    ELSE <<DisplayHeight, size[2]>>

\* lines 95-96
ScaledSize(size) ==
    LET sc == ScaleOf(size)
    IN  << IntOfProduct(size[1], sc[1], sc[2]), IntOfProduct(size[2], sc[1], sc[2]) >>

\* line 97: image.resize(size, Image.NEAREST): the pixel at (x, y) is the source
\* pixel under the centre of (x, y)
Resize(img, size) ==
    NewImage(size[1], size[2],
             { xy \in Grid(size[1], size[2]) :
                   << ((2 * xy[1] + 1) * img.size[1]) \div (2 * size[1]),
                      ((2 * xy[2] + 1) * img.size[2]) \div (2 * size[2]) >> \in img.lit })

\* faulty variant: the whole margin put on the left and on top
Centre_NoHalf(container, item) == container - item

\* lines 104-105: (display_width - img_width) // 2
Centre(container, item) == (container - item) \div 2

\* faulty variant: the image pasted in the top left corner
Paste_NoOffset(img, offset) ==
    NewImage(DisplayWidth, DisplayHeight,
             { p \in img.lit : InImage(p, DisplayWidth, DisplayHeight) })

\* line 108: display_image.paste(image, offset) onto the black display image
Paste(img, offset) ==
    NewImage(DisplayWidth, DisplayHeight,
             { p \in { <<xy[1] + offset[1], xy[2] + offset[2]>> : xy \in img.lit } :
                   InImage(p, DisplayWidth, DisplayHeight) })

\* lines 80-111.  zero_raises: whether resize to a size with a 0 raises ValueError
\* or gives an image without pixels, which depends on the Pillow at hand
display_image_on_oled(img, zero_raises) ==
    LET scaled == NeedsScale(img.size)
        size == IF scaled THEN ScaledSize(img.size) ELSE img.size
        offset == << Centre(DisplayWidth, size[1]), Centre(DisplayHeight, size[2]) >>
    IN  IF scaled /\ (size[1] = 0 \/ size[2] = 0) /\ zero_raises
        THEN [called |-> TRUE, raised |-> TRUE, source |-> img.size, scaled |-> scaled,
              size |-> size]
        ELSE [called |-> TRUE, raised |-> FALSE, source |-> img.size, scaled |-> scaled,
              size |-> size, offset |-> offset,
              display_image |-> Paste(IF scaled THEN Resize(img, size) ELSE img, offset)]

(***************************************************************************)
(* test_image_display.py: main, from the loaded images on                  *)
(***************************************************************************)
\* faulty variant: the first image shown in the first cycle only
NextIndex_SkipFirst(index, n) == IF index + 1 >= n THEN 1 ELSE index + 1

\* lines 321-322: the next i of for i, img in enumerate(images) inside while True
NextIndex(index, n) == (index + 1) % n

\* faulty variant: the handler leaves the device as it is
OnKeyboardInterrupt_Keep(shown) == shown

\* lines 308-310, 328-330: except KeyboardInterrupt: device.clear()
OnKeyboardInterrupt(shown) == Cleared

\* line 296: len(images) == 1, args.single not given
SingleMode == Len(images) = 1

\* lines 299, 323: display_image_on_oled is entered, the image is fitted
AnimCall ==
    /\ anim_pc = "call"
    /\ \E zero_raises \in BOOLEAN :
           fit' = display_image_on_oled(images[frame_index + 1], zero_raises)
    /\ anim_pc' = IF fit'.raised THEN "error" ELSE "paste"
    /\ UNCHANGED <<images, frame_index, frame_count, played, screen, interrupted_at>>
    /\ UNCHANGED <<iconVars, displayVars, fmtVars, renderVars, threadVars, direction>>

\* lines 101-111: the display image is made and handed to device.display
AnimPaste ==
    /\ anim_pc = "paste"
    /\ screen' = Showing(fit.display_image)
    /\ played' = Append(played, frame_index)
    /\ anim_pc' = IF SingleMode THEN "wait" ELSE "count"
    /\ UNCHANGED <<images, frame_index, frame_count, fit, interrupted_at>>
    /\ UNCHANGED <<iconVars, displayVars, fmtVars, renderVars, threadVars, direction>>

\* lines 324-326
AnimCount ==
    /\ anim_pc = "count"
    /\ frame_count' = frame_count + 1
    /\ anim_pc' = "sleep"
    /\ UNCHANGED <<images, frame_index, played, screen, fit, interrupted_at>>
    /\ UNCHANGED <<iconVars, displayVars, fmtVars, renderVars, threadVars, direction>>

\* line 327, then the next turn of the for loop
AnimSleep ==
    /\ anim_pc = "sleep"
    /\ frame_count < MaxShown
    /\ frame_index' = NextIndex(frame_index, Len(images))
    /\ anim_pc' = "call"
    /\ UNCHANGED <<images, frame_count, played, screen, fit, interrupted_at>>
    /\ UNCHANGED <<iconVars, displayVars, fmtVars, renderVars, threadVars, direction>>

\* Ctrl+C.  The animation is inside try ... except KeyboardInterrupt as a whole;
\* of the single image mode only the wait loop is (lines 299, 305-310), and
\* except Exception (line 334) does not catch KeyboardInterrupt.
Interrupt ==
    /\ anim_pc \in {"call", "paste", "count", "sleep", "wait"}
    /\ interrupted_at' = anim_pc
    /\ IF SingleMode /\ anim_pc # "wait"
       THEN anim_pc' = "killed" /\ screen' = screen
       ELSE anim_pc' = "done" /\ screen' = OnKeyboardInterrupt(screen)
    /\ UNCHANGED <<images, frame_index, frame_count, played, fit>>
    /\ UNCHANGED <<iconVars, displayVars, fmtVars, renderVars, threadVars, direction>>

\* image k of an animation file: 8x1 pixels, pixel k - 1 lit
AnimText(k) == "// 8x1px\n" \o HexByteStr(2 ^ (8 - k))

\* lines 145-163 on the texts AnimText(1) .. AnimText(n)
AnimImages(n) == [k \in 1..n |-> ParseImage(AnimText(k)).ret]

InitMain ==
    /\ InitOthersIdle
    /\ InitFmtIdle
    /\ anim_pc = "call"
    /\ frame_index = 0
    /\ frame_count = 0
    /\ played = <<>>
    /\ screen = Cleared
    /\ fit = NotCalled
    /\ interrupted_at = "none"
    /\ direction = 1

NextAnim == AnimCall \/ AnimPaste \/ AnimCount \/ AnimSleep \/ Interrupt

InitAnim ==
    /\ InitMain
    /\ \E n \in 2..MaxImages : images = AnimImages(n)

SpecAnim == InitAnim /\ [][NextAnim]_vars

(***************************************************************************)
(* main with one image of every size of ImageSizes                         *)
(***************************************************************************)
ImageSizes ==
    {1, 2, 3, 16, 32, 64, 98, 128, 129, 200, 256, 384}
        \X {1, 2, 3, 16, 32, 64, 65, 98, 128, 196}

\* what parse_hex_data and hex_to_image make of "// WxHpx\n0x80": pixel (0, 0)
\* lit when the size has a byte, every other pixel padded with 0
SizedImage(size) ==
    NewImage(size[1], size[2], IF size[1] * size[2] >= 8 THEN {<<0, 0>>} ELSE {})

\* what they make of "// WxHpx\n0x80, 0x00, ..., 0x01" with a token for every 8
\* pixels: pixel (0, 0) and the last pixel that has a token lit
CornerImage(size) ==
    LET last == 8 * ((size[1] * size[2]) \div 8) - 1
    IN  NewImage(size[1], size[2],
                 IF last < 0 THEN {} ELSE {<<0, 0>>, <<last % size[1], last \div size[1]>>})

NextFit == AnimCall \/ AnimPaste \/ Interrupt

InitFit ==
    /\ InitMain
    /\ \E size \in ImageSizes : images \in { << SizedImage(size) >>, << CornerImage(size) >> }

SpecFit == InitFit /\ [][NextFit]_vars

(***************************************************************************)
(* Ping-pong playback of the animation sequencer: forward 0..N-1, then     *)
(* backward N-2..1, the endpoints not repeated; one frame when N is 1      *)
(***************************************************************************)
\* faulty variant: the endpoints played twice, 0..N-1 then N-1..0
PingPongNext_RepeatEnds(index, dir, n) ==
    IF n = 1 THEN [index |-> 0, dir |-> 1]
    ELSE IF dir = 1
    THEN (IF index = n - 1 THEN [index |-> index, dir |-> -1]
          ELSE [index |-> index + 1, dir |-> 1])
    ELSE (IF index = 0 THEN [index |-> index, dir |-> 1]
          ELSE [index |-> index - 1, dir |-> -1])

\* the frame after frame index when playing in direction dir
PingPongNext(index, dir, n) ==
    IF n = 1 THEN [index |-> 0, dir |-> 1]
    ELSE IF dir = 1
    THEN (IF index = n - 1 THEN [index |-> n - 2, dir |-> -1]
          ELSE [index |-> index + 1, dir |-> 1])
    ELSE (IF index = 0 THEN [index |-> 1, dir |-> 1]
          ELSE [index |-> index - 1, dir |-> -1])

\* Playing: the frame is composed and shown for its duration, then the sequencer
\* moves on
PingPongStep ==
    /\ anim_pc = "pingpong"
    /\ Len(played) < MaxPlayed
    /\ played' = Append(played, frame_index)
    /\ screen' = Showing(display_image_on_oled(images[frame_index + 1], TRUE).display_image)
    /\ frame_index' = PingPongNext(frame_index, direction, Len(images)).index
    /\ direction' = PingPongNext(frame_index, direction, Len(images)).dir
    /\ UNCHANGED <<images, anim_pc, frame_count, fit, interrupted_at>>
    /\ UNCHANGED <<iconVars, displayVars, fmtVars, renderVars, threadVars>>

\* Playing -> Stopped: cancellation, seen at a frame boundary; the frame stays
PingPongStop ==
    /\ anim_pc = "pingpong"
    /\ anim_pc' = "stopped"
    /\ UNCHANGED <<images, frame_index, frame_count, played, screen, fit, interrupted_at,
                   direction>>
    /\ UNCHANGED <<iconVars, displayVars, fmtVars, renderVars, threadVars>>

NextPingPong == PingPongStep \/ PingPongStop

InitPingPong ==
    /\ InitOthersIdle
    /\ InitFmtIdle
    /\ \E n \in 1..MaxPingPong : images = AnimImages(n)
    /\ anim_pc = "pingpong"
    /\ frame_index = 0
    /\ frame_count = 0
    /\ played = <<>>
    /\ screen = Cleared
    /\ fit = NotCalled
    /\ interrupted_at = "none"
    /\ direction = 1

SpecPingPong == InitPingPong /\ [][NextPingPong]_vars

(***************************************************************************)
(* The methods of one KilnDisplay called from two threads: the run loop of *)
(* DisplayUpdater and a thread that uses display_updater.display.  A       *)
(* method composes on a canvas of its own; leaving the canvas hands the    *)
(* image to device.display.  KilnDisplay takes no lock.                    *)
(***************************************************************************)
\* faulty variant: the message drawn whole
show_message_NoCut(message, line) == << Text(0, line * 12, message) >>

\* display.py lines 184-186: the canvas of show_message(message, line)
show_message(message, line) ==
    << Text(0, line * 12, SubSeq(message, 1, IF Len(message) < 21 THEN Len(message) ELSE 21)) >>

\* display.py line 121 raises before the canvas is opened
RaisesBeforeCanvas(oven_state) ==
    LET runtime == Get(oven_state, "runtime", Val(0))
        totaltime == Get(oven_state, "totaltime", Val(0))
    IN  totaltime.none \/ (totaltime.v > 0 /\ runtime.none)

\* thread t enters update, show_message or clear: lines 107-108, 162-164, 180-181
\* return when the display is not initialized; update and show_message open a
\* canvas, clear goes to the device at once
Begin(t, op) ==
    /\ render[t].pc = "idle"
    /\ initialized
    /\ IF op = "update"
       THEN /\ snapshot' = Val([oven_state |-> oven, temp_scale |-> scale])
            /\ IF RaisesBeforeCanvas(oven)
               THEN outcome' = "logged" /\ render' = render
               ELSE /\ outcome' = outcome
                    /\ render' = [render EXCEPT ![t] =
                                     [pc |-> "compose", op |-> op, canvas |-> <<>>]]
       ELSE /\ UNCHANGED <<snapshot, outcome>>
            /\ render' = [render EXCEPT ![t] =
                             [pc |-> IF op = "clear" THEN "transmit" ELSE "compose",
                              op |-> op, canvas |-> <<>>]]
    /\ UNCHANGED <<iconVars, initialized, device, oven, scale, frame, fmtVars, animVars,
                   threadVars>>

\* display_example.py lines 46-51
UpdaterBegin == Begin("updater", "update")

\* another thread calls a method of the same display
CallerBegin == \E op \in {"update", "show_message", "clear"} : Begin("caller", op)

\* the draw.text calls inside the canvas; an exception inside it (heat_rate None)
\* leaves the canvas without display and is logged
Compose ==
    \E t \in Threads :
        /\ render[t].pc = "compose"
        /\ IF render[t].op = "update" /\ UpdateTry(snapshot.v.oven_state, snapshot.v.temp_scale).raised
           THEN /\ outcome' = "logged"
                /\ render' = [render EXCEPT ![t] = NotRendering]
           ELSE /\ outcome' = outcome
                /\ render' = [render EXCEPT ![t] =
                       [pc |-> "transmit", op |-> render[t].op,
                        canvas |-> IF render[t].op = "update"
                                   THEN UpdateTry(snapshot.v.oven_state,
                                                  snapshot.v.temp_scale).frame
                                   ELSE show_message("Kiln Controller", 2)]]
        /\ UNCHANGED <<iconVars, initialized, device, oven, scale, snapshot, frame,
                       fmtVars, animVars, threadVars>>

\* the canvas is left, device.display(image) runs, or device.clear() does
Transmit ==
    \E t \in Threads :
        /\ render[t].pc = "transmit"
        /\ frame' = render[t].canvas
        /\ outcome' = (CASE render[t].op = "update" -> "drawn"
                         [] render[t].op = "show_message" -> "message"
                         [] OTHER -> "cleared")
        /\ render' = [render EXCEPT ![t] = NotRendering]
        /\ UNCHANGED <<iconVars, initialized, device, oven, scale, snapshot, fmtVars, animVars,
                       threadVars>>

\* the kiln moves on while the threads run
OvenMoves ==
    /\ oven' \in ExampleStates \ {oven}
    /\ UNCHANGED <<iconVars, initialized, device, scale, snapshot, frame, outcome, laterVars>>

NextRender == UpdaterBegin \/ CallerBegin \/ Compose \/ Transmit \/ OvenMoves

InitRender ==
    /\ InitDisplay
    /\ InitIcons
    /\ hex_text = ""
    /\ file_status = "absent"
    /\ oven \in ExampleStates
    /\ scale = "f"
    /\ InitLaterIdle

SpecRender == InitRender /\ [][NextRender]_vars

(***************************************************************************)
(* update, show_message and clear called one after the other on a          *)
(* KilnDisplay, whatever its constructor made of it                        *)
(***************************************************************************)
Messages ==
    { PyNone, Val(""), Val("Kiln Controller"), Val("Firing: Cone 6 Glaze!"),
      Val("Display updater ready."), Val("Kiln Controller - Slow Bisque 04") }

\* "Line number (0-4 for 64px height)"
MessageLines == 0..4

\* faulty variant: show_message without its try ... except
show_message_call_NoExcept(inited, shown, message, line, device_ok) ==
    IF ~inited THEN [frame |-> shown, outcome |-> "skipped"]
    ELSE IF message.none \/ ~device_ok THEN [frame |-> shown, outcome |-> "raised"]
    ELSE [frame |-> show_message(message.v, line), outcome |-> "message"]

\* display.py lines 172-188.  message[:21] on None raises TypeError; device_ok
\* tells whether device.display succeeds; both end in the except branch
show_message_call(inited, shown, message, line, device_ok) ==
    IF ~inited THEN [frame |-> shown, outcome |-> "skipped"]
    ELSE IF message.none \/ ~device_ok THEN [frame |-> shown, outcome |-> "logged"]
    ELSE [frame |-> show_message(message.v, line), outcome |-> "message"]

\* display.py lines 162-170
clear_call(inited, shown, device_ok) ==
    IF ~inited THEN [frame |-> shown, outcome |-> "skipped"]
    ELSE IF ~device_ok THEN [frame |-> shown, outcome |-> "logged"]
    ELSE [frame |-> <<>>, outcome |-> "cleared"]

ShowMessage ==
    \E message \in Messages, line \in MessageLines, device_ok \in BOOLEAN :
        LET r == show_message_call(initialized, frame, message, line, device_ok)
        IN  /\ snapshot' = Val([message |-> message, line |-> line])
            /\ frame' = r.frame
            /\ outcome' = r.outcome
            /\ UNCHANGED <<iconVars, initialized, device, oven, scale, laterVars>>

Clear ==
    \E device_ok \in BOOLEAN :
        LET r == clear_call(initialized, frame, device_ok)
        IN  /\ snapshot' = PyNone
            /\ frame' = r.frame
            /\ outcome' = r.outcome
            /\ UNCHANGED <<iconVars, initialized, device, oven, scale, laterVars>>

NextMethods == Update \/ ShowMessage \/ Clear \/ OvenStep

InitMethods == InitRender

SpecMethods == InitMethods /\ [][NextMethods]_vars

(***************************************************************************)
(* lib/homeassistant_mqtt.py: the run loop of HomeAssistantMQTT and the    *)
(* callbacks paho's network thread makes (loop_start, line 52)             *)
(***************************************************************************)
\* the publish calls of one cycle, lines 114-121
Topics == 1..8

\* lines 94-109: heat > 0 and totaltime > 0 raise TypeError on None, as does
\* totaltime - runtime; the oven states here have no 'heat', which reads as 0
ExtractRaises(state) ==
    LET runtime == Get(state, "runtime", Val(0))
        totaltime == Get(state, "totaltime", Val(0))
    IN  totaltime.none \/ (totaltime.v > 0 /\ runtime.none)

\* lines 114-121: round(None, 2) and int(None) raise TypeError when the payload of
\* publish call k is made
PayloadRaises(state, k) ==
    \/ k = 1 /\ Get(state, "temperature", Val(0)).none
    \/ k = 2 /\ Get(state, "target", Val(0)).none
    \/ k = 7 /\ Get(state, "runtime", Val(0)).none
    \/ k = 8 /\ Get(state, "heat_rate", Val(0)).none

\* lines 58-64: the value on_connect gives connected
on_connect(rc) == rc = 0

\* lines 89-109, 123: the test of connected, the state read and its values
\* taken; an exception goes to the except branch of line 128, which sleeps
MqttCheck ==
    /\ mqtt_pc = "check"
    /\ sent' = <<>>
    /\ topic' = 1
    /\ mqtt_pc' = IF connected /\ ~ExtractRaises(oven) THEN "publish_check" ELSE "sleep"
    /\ UNCHANGED <<client, connected>>
    /\ UNCHANGED <<iconVars, displayVars, fmtVars, animVars, renderVars, updaterVars>>

\* after publish call topic: the next one, or the sleep of line 126
AfterTopic ==
    IF topic = 8 THEN mqtt_pc' = "sleep" /\ topic' = topic
    ELSE mqtt_pc' = "publish_check" /\ topic' = topic + 1

\* the payload of a publish call is made, then lines 70-72: publish returns when
\* connected is False or there is no client
MqttPublishCheck ==
    /\ mqtt_pc = "publish_check"
    /\ IF PayloadRaises(oven, topic) THEN mqtt_pc' = "sleep" /\ topic' = topic
       ELSE IF ~connected \/ client.none THEN AfterTopic
       ELSE mqtt_pc' = "publish_send" /\ topic' = topic
    /\ UNCHANGED <<client, connected, sent>>
    /\ UNCHANGED <<iconVars, displayVars, fmtVars, animVars, renderVars, updaterVars>>

\* lines 74-78: self.client.publish(topic, payload)
MqttPublishSend ==
    /\ mqtt_pc = "publish_send"
    /\ sent' = Append(sent, [topic |-> topic, connected |-> connected])
    /\ AfterTopic
    /\ UNCHANGED <<client, connected>>
    /\ UNCHANGED <<iconVars, displayVars, fmtVars, animVars, renderVars, updaterVars>>

\* lines 126, 130
MqttSleep ==
    /\ mqtt_pc = "sleep"
    /\ mqtt_pc' = "check"
    /\ UNCHANGED <<client, connected, topic, sent>>
    /\ UNCHANGED <<iconVars, displayVars, fmtVars, animVars, renderVars, updaterVars>>

\* the network thread: a connection attempt ends with return code rc
OnConnect ==
    /\ mqtt_pc # "off" /\ ~client.none
    /\ \E rc \in {0, 5} : connected' = on_connect(rc)
    /\ UNCHANGED <<client, mqtt_pc, topic, sent>>
    /\ UNCHANGED <<iconVars, displayVars, fmtVars, animVars, renderVars, updaterVars>>

\* the network thread: lines 66-68
OnDisconnect ==
    /\ mqtt_pc # "off" /\ ~client.none
    /\ connected' = FALSE
    /\ UNCHANGED <<client, mqtt_pc, topic, sent>>
    /\ UNCHANGED <<iconVars, displayVars, fmtVars, animVars, renderVars, updaterVars>>

NextMqtt ==
    MqttCheck \/ MqttPublishCheck \/ MqttPublishSend \/ MqttSleep \/ OnDisconnect \/ OnConnect

\* oven states with a None in a published field
MqttStates ==
    ExampleStates
        \cup { [state |-> Val("RUNNING"), profile |-> Val("Cone 10"), temperature |-> Val(1250),
                target |-> t, runtime |-> Val(3600), totaltime |-> Val(7200), heat_rate |-> h] :
                   t \in {PyNone, Val(1300)}, h \in {PyNone, Val(150)} }

\* lines 13-56 with config.ha_mqtt_enabled: setup_mqtt made the client, or
\* mqtt.Client raised and client stays None
InitMqtt ==
    /\ initialized = Construct(FALSE, "ok").initialized
    /\ device = Construct(FALSE, "ok").device
    /\ snapshot = PyNone
    /\ frame = <<>>
    /\ outcome = "none"
    /\ InitIcons
    /\ hex_text = ""
    /\ file_status = "absent"
    /\ oven \in MqttStates
    /\ scale = "f"
    /\ InitFmtIdle /\ InitAnimIdle /\ InitRenderIdle /\ InitUpdaterIdle
    /\ client \in {PyNone, Val("paho")}
    /\ connected = FALSE
    /\ mqtt_pc = "check"
    /\ topic = 1
    /\ sent = <<>>

SpecMqtt == InitMqtt /\ [][NextMqtt]_vars

(***************************************************************************)
(* display_example.py: the thread of DisplayUpdater                        *)
(***************************************************************************)
\* faulty variant: the exception ends the thread
AfterException_Dies == "dead"

\* display_example.py lines 56-58: the except branch logs, sleeps and stays in
\* the loop
AfterException == "sleep"

\* line 46: if self.display.initialized
UpdaterTest ==
    /\ updater_pc = "test"
    /\ updater_pc' = IF initialized THEN "get_state" ELSE "sleep"
    /\ UNCHANGED <<state_read, caught>>
    /\ UNCHANGED <<iconVars, displayVars, fmtVars, animVars, renderVars, mqttVars>>

\* line 48: state = self.oven.get_state(), which returns or raises
UpdaterGetState ==
    /\ updater_pc = "get_state"
    /\ \E raises \in BOOLEAN :
           IF raises THEN updater_pc' = "except" /\ state_read' = state_read
           ELSE updater_pc' = "update" /\ state_read' = Val(oven)
    /\ UNCHANGED caught
    /\ UNCHANGED <<iconVars, displayVars, fmtVars, animVars, renderVars, mqttVars>>

\* line 51: self.display.update(state, temp_scale=config.temp_scale), which
\* catches what it raises
UpdaterUpdate ==
    /\ updater_pc = "update"
    /\ LET r == update(initialized, frame, state_read.v, scale)
       IN  /\ snapshot' = Val([oven_state |-> state_read.v, temp_scale |-> scale])
           /\ frame' = r.frame
           /\ outcome' = r.outcome
    /\ updater_pc' = "sleep"
    /\ UNCHANGED <<state_read, caught>>
    /\ UNCHANGED <<iconVars, initialized, device, oven, scale>>
    /\ UNCHANGED <<fmtVars, animVars, renderVars, mqttVars>>

\* lines 56-58: except Exception, log.error, then the sleep
UpdaterExcept ==
    /\ updater_pc = "except"
    /\ caught' = TRUE
    /\ updater_pc' = AfterException
    /\ UNCHANGED state_read
    /\ UNCHANGED <<iconVars, displayVars, fmtVars, animVars, renderVars, mqttVars>>

\* lines 54, 58: time.sleep(self.update_interval), then the next turn of while True
UpdaterSleep ==
    /\ updater_pc = "sleep"
    /\ updater_pc' = "test"
    /\ UNCHANGED <<state_read, caught>>
    /\ UNCHANGED <<iconVars, displayVars, fmtVars, animVars, renderVars, mqttVars>>

\* the steps of the updater thread
UpdaterRun ==
    UpdaterTest \/ UpdaterGetState \/ UpdaterUpdate \/ UpdaterExcept \/ UpdaterSleep

NextUpdater == UpdaterRun \/ OvenStep

\* lines 18-40: DisplayUpdater makes its own KilnDisplay and shows
\* "Kiln Controller" on line 2 when it is initialized; start() runs the thread
InitUpdater ==
    /\ \E config_enabled \in BOOLEAN, bringup \in {"ok", "i2c", "ssd1309", "clear"},
          device_ok \in BOOLEAN :
           LET made == Construct(config_enabled, bringup)
               shown == show_message_call(made.initialized, <<>>, Val("Kiln Controller"),
                                          2, device_ok)
           IN  /\ initialized = made.initialized
               /\ device = made.device
               /\ frame = shown.frame
               /\ outcome = IF made.initialized THEN shown.outcome ELSE "none"
    /\ snapshot = PyNone
    /\ InitIcons
    /\ hex_text = ""
    /\ file_status = "absent"
    /\ oven \in ExampleStates
    /\ scale \in {"f", "c"}
    /\ InitFmtIdle /\ InitAnimIdle /\ InitRenderIdle /\ InitMqttIdle
    /\ updater_pc = "test"
    /\ state_read = PyNone
    /\ caught = FALSE

\* the thread started by start() is scheduled again and again
SpecUpdater == InitUpdater /\ [][NextUpdater]_vars /\ WF_vars(UpdaterRun)

(***************************************************************************)
(* What the claims say of a decoded bitmap                                 *)
(***************************************************************************)
\* bit b (0..7) of the low byte of a token
LowBit(token, b) == ((token % 256) \div (2 ^ b)) % 2 = 1

\* the bit of the pixel stream at index i that the token list dictates
TokenBit(tokens, i) == LowBit(tokens[(i \div 8) + 1], 7 - (i % 8))

ExpectedBytes(dim) == (dim[1] * dim[2]) \div 8

Min(a, b) == IF a < b THEN a ELSE b

\* the bitmap of size dim whose pixel i is lit exactly when i lies in the first
\* ExpectedBytes(dim) tokens and the token's bit is set
BitmapOf(dim, tokens) ==
    NewImage(dim[1], dim[2],
             { <<i % dim[1], i \div dim[1]>> :
                   i \in { n \in 0..(8 * Min(Len(tokens), ExpectedBytes(dim)) - 1) :
                              TokenBit(tokens, n) } })

IconLoaded == icon.called /\ file_status = "ok"
IconGood == IconLoaded /\ ~icon.raised /\ ~icon.ret.none
ImageGood == image.called /\ ~image.raised /\ ~image.ret.none

\* the dimensions and the tokens each decoder worked from
IconDim == IconDimensions(hex_text)
IconTokens == IconHexData(hex_text)
ImageDim == <<parsed.v[2], parsed.v[3]>>
ImageTokens == parsed.v[1]

\* the row-major index of the pixel at xy
IndexOf(xy, dim) == xy[2] * dim[1] + xy[1]

\* every lit pixel lies inside the dim[1] x dim[2] grid
InsideGrid(img, dim) == \A xy \in img.lit : InImage(xy, dim[1], dim[2])

\* a bitmap of exactly dim[1] * dim[2] pixels whose first 8 * Len(tokens) pixels are
\* the tokens' bits and whose other pixels are unlit
PaddedDecoding(img, dim, tokens) ==
    /\ img.size = dim
    /\ InsideGrid(img, dim)
    /\ \A i \in 0..(8 * Len(tokens) - 1) : PixelAt(img, i) <=> TokenBit(tokens, i)
    /\ \A xy \in img.lit : IndexOf(xy, dim) < 8 * Len(tokens)

\* C1: a source with fewer hex tokens than (W*H)/8 decodes, by load_icon_from_hex
\* and by parse_hex_data + hex_to_image, to a bitmap of exactly W*H pixels: the
\* pixels the tokens cover are the tokens' bits, every pixel after them is unlit.
C1_ShortSourcePadded ==
    /\ (IconLoaded /\ Len(IconTokens) < ExpectedBytes(IconDim))
           => (IconGood /\ PaddedDecoding(icon.ret, IconDim, IconTokens))
    /\ (image.called /\ Len(ImageTokens) < ExpectedBytes(ImageDim))
           => (ImageGood /\ PaddedDecoding(image.ret, ImageDim, ImageTokens))

C1_Witness ==
    /\ IconGood /\ ImageGood
    /\ Len(IconTokens) = 1 /\ ExpectedBytes(IconDim) = 2
    /\ icon.ret.lit # {}
    /\ Len(ImageTokens) < ExpectedBytes(ImageDim)

\* the sources next to text: its last line replaced by another line (an empty last
\* line replaced is a line appended)
Neighbours(text) ==
    LET ls == SplitLines(text)
    IN  {JoinLines(SubSeq(ls, 1, Len(ls) - 1) \o <<l>>) : l \in SourceLines}

\* two token lists, both longer than n, with the same first n tokens
SameHead(t1, t2, n) ==
    /\ Len(t1) > n /\ Len(t2) > n
    /\ SubSeq(t1, 1, n) = SubSeq(t2, 1, n)

\* C2: with more tokens than (W*H)/8 the bitmap depends on the first (W*H)/8 tokens
\* only: any source with the same declared dimensions and the same first tokens
\* decodes to the bitmap this source decoded to.
C2_ExtraTokensIgnored ==
    \A other \in Neighbours(hex_text) :
        LET p == parse_hex_data(other)
        IN  /\ (/\ IconLoaded
                /\ IconDimensions(other) = IconDim
                /\ SameHead(IconTokens, IconHexData(other), ExpectedBytes(IconDim)))
                   => load_icon_from_hex("ok", other) = icon
            /\ (/\ image.called
                /\ <<p[2], p[3]>> = ImageDim
                /\ SameHead(ImageTokens, p[1], ExpectedBytes(ImageDim)))
                   => ParseImage(other) = image

C2_Witness ==
    /\ IconGood /\ ImageGood
    /\ icon.ret.lit # {}
    /\ \E other \in Neighbours(hex_text) :
           /\ IconDimensions(other) = IconDim
           /\ SameHead(IconTokens, IconHexData(other), ExpectedBytes(IconDim))
           /\ \E k \in (ExpectedBytes(IconDim) + 1)..Min(Len(IconTokens), Len(IconHexData(other))) :
                  IconHexData(other)[k] % 256 # IconTokens[k] % 256

\* token k (from 0) of the list the pixels are unpacked from: the source's token,
\* or the zero byte that pads a short source
TokenOrPad(tokens, k) == IF k < Len(tokens) THEN tokens[k + 1] ELSE 0

\* the tokens of the source decide their pixels, and a pixel of a padding byte
\* (k from Len(tokens) on) is unlit as a zero byte has no bit set
MsbFirstRowMajor(img, dim, tokens) ==
    /\ \A k \in 0..(Min(Len(tokens), ExpectedBytes(dim)) - 1), j \in 0..7 :
           (8 * k + j < dim[1] * dim[2])
               => ( (<<(8 * k + j) % dim[1], (8 * k + j) \div dim[1]>> \in img.lit)
                        <=> LowBit(TokenOrPad(tokens, k), 7 - j) )
    /\ \A xy \in img.lit :
           LET k == IndexOf(xy, dim) \div 8
           IN  (Len(tokens) <= k /\ k < ExpectedBytes(dim))
                   => LowBit(TokenOrPad(tokens, k), 7 - (IndexOf(xy, dim) % 8))

\* C3: unpacking is MSB-first and row-major: pixel ((8k+j) mod W, (8k+j) div W) is
\* lit exactly when bit 7-j of token k of the unpacked list is set, and what a
\* token holds above bit 7 changes no pixel.
C3_MsbFirstRowMajor ==
    /\ IconLoaded => (IconGood /\ MsbFirstRowMajor(icon.ret, IconDim, IconTokens))
    /\ image.called => (ImageGood /\ MsbFirstRowMajor(image.ret, ImageDim, ImageTokens))

C3_Witness ==
    /\ IconGood /\ ImageGood
    /\ \E k \in 1..Len(IconTokens) :
           /\ k <= ExpectedBytes(IconDim)
           /\ IconTokens[k] > 255
    /\ \E xy \in icon.ret.lit : xy[2] > 0
    /\ icon.ret.lit # Grid(IconDim[1], IconDim[2])

\* C4: a WxH bitmap with W*H divisible by 8, written as a declared WxHpx
\* dimension and (W*H)/8 hex byte tokens and decoded again, is the same bitmap.
C4_RoundTrip ==
    \A p \in EncodedPairs :
        (hex_text = p[1])
            => /\ IconLoaded => (~icon.raised /\ icon.ret = p[2])
               /\ image.called => (~image.raised /\ image.ret = p[2])

C4_Witness ==
    /\ IconGood /\ ImageGood
    /\ hex_text \in EncodedSources
    /\ icon.ret.size = <<4, 4>>
    /\ Cardinality(icon.ret.lit) = 2

\* the places <<p, a, b>> of a line where <digits>x<digits>px stands, in either
\* case: digits from p, the x at a, digits up to b - 1, the p at b, the x after it
DimMatches(line) ==
    LET n == Len(line)
        AllDigits(from, to) == from <= to /\ \A i \in from..to : IsDigit(Char(line, i))
    IN  { m \in (1..n) \X (1..n) \X (1..n) :
              /\ m[1] < m[2] /\ m[2] + 1 < m[3]
              /\ Char(line, m[2]) \in {"x", "X"}
              /\ Char(line, m[3]) \in {"p", "P"}
              /\ Char(line, m[3] + 1) \in {"x", "X"}
              /\ AllDigits(m[1], m[2] - 1)
              /\ AllDigits(m[2] + 1, m[3] - 1) }

\* the leftmost match of the first line that has one, or the defaults
DeclaredDim(text, default) ==
    LET ls == SplitLines(text)
        with == {i \in 1..Len(ls) : DimMatches(ls[i]) # {}}
    IN  IF with = {} THEN default
        ELSE LET i == CHOOSE i \in with : \A o \in with : i <= o
                 m == CHOOSE m \in DimMatches(ls[i]) : \A o \in DimMatches(ls[i]) : m[1] <= o[1]
             IN  << IntDec(SubSeq(ls[i], m[1], m[2] - 1)),
                    IntDec(SubSeq(ls[i], m[2] + 1, m[3] - 1)) >>

\* C5: the dimensions are those of the first <digits>x<digits>px (in either case)
\* found scanning the source line by line, later ones are ignored, and without
\* any they are the decoder's defaults.
C5_FirstDimensionWins ==
    /\ IconLoaded
           => (IconGood /\ icon.ret.size
                   = DeclaredDim(hex_text, <<IconDefaultWidth, IconDefaultHeight>>))
    /\ image.called
           => /\ ImageDim = DeclaredDim(hex_text, <<ParseDefaultWidth, ParseDefaultHeight>>)
              /\ ImageGood /\ image.ret.size = ImageDim

C5_Witness ==
    /\ IconGood /\ ImageGood
    /\ LET ls == SplitLines(hex_text)
       IN  /\ Len(ls) = 2
           /\ DimMatches(ls[1]) # {} /\ DimMatches(ls[2]) # {}
           /\ DeclaredDim(ls[1], <<0, 0>>) # DeclaredDim(ls[2], <<0, 0>>)
           /\ Cardinality(DimMatches(ls[1])) = 2

\* a line whose first non-space characters are "//"
CommentLine(line) ==
    \E i \in 1..Len(line) :
        /\ Char(line, i) = "/" /\ Char(line, i + 1) = "/"
        /\ \A j \in 1..(i - 1) : Char(line, j) \in {" ", "\t"}

\* the 0x<hex> tokens of the lines that are no comment, in order of appearance
RECURSIVE DataTokens(_)
DataTokens(ls) ==
    IF Len(ls) = 0 THEN <<>>
    ELSE (IF CommentLine(ls[1]) THEN <<>> ELSE FindAllHex(ls[1])) \o DataTokens(Tail(ls))

\* C6: comment lines are dropped before the tokens are read: the token list is
\* exactly the 0x<hex> tokens of the non-comment lines in order of appearance,
\* so a 0x<hex> in a comment line gives no byte and no pixel.
C6_CommentsStripped ==
    LET tokens == HexInts(DataTokens(SplitLines(hex_text)))
    IN  /\ IconLoaded => (IconGood /\ icon.ret = BitmapOf(IconDim, tokens))
        /\ image.called => (ImageTokens = tokens /\ ImageGood
                                /\ image.ret = BitmapOf(ImageDim, tokens))

C6_Witness ==
    /\ IconGood /\ ImageGood
    /\ LET ls == SplitLines(hex_text)
       IN  /\ Len(ls) = 2
           /\ CommentLine(ls[1]) /\ Char(ls[1], 1) = " " /\ FindAllHex(ls[1]) # <<>>
           /\ ~CommentLine(ls[2]) /\ Len(FindAllHex(ls[2])) = 2
    /\ icon.ret.lit # {}

\* C7: decoding never fails on malformed content: with no token, too few or too
\* many tokens, no dimension line, or dimensions whose product is no multiple of
\* 8, each decoder returns a bitmap of width * height pixels of the resolved
\* dimensions.
C7_DecodeTotal ==
    /\ IconLoaded => /\ ~icon.raised /\ ~icon.ret.none
                     /\ icon.ret.size = IconDim
                     /\ InsideGrid(icon.ret, IconDim)
    /\ image.called => /\ ~image.raised /\ ~image.ret.none
                       /\ image.ret.size = ImageDim
                       /\ InsideGrid(image.ret, ImageDim)

C7_Witness ==
    /\ IconGood /\ ImageGood
    /\ (IconDim[1] * IconDim[2]) % 8 # 0
    /\ Len(IconTokens) > ExpectedBytes(IconDim)
    /\ IconTokens[2] % 256 >= 128

\* the texts of a frame, top to bottom
Texts(ops) == [k \in 1..Len(ops) |-> ops[k].text]

\* C8: when the icon file is absent or cannot be read, load_icon_from_hex /
\* get_icon returns None without raising, and the caller that got None draws no
\* bitmap but still draws the rest of its frame.
C8_UnreadableIconIsNone ==
    /\ (icon.called /\ file_status \in {"absent", "ioerror"})
           => (~icon.raised /\ icon.ret = NoIcon)
    /\ (outcome = "icons" /\ file_status \in {"absent", "ioerror"})
           => /\ \A k \in 1..Len(frame) : frame[k].op # "bitmap"
              /\ \E k \in 1..Len(frame) : frame[k].op = "text"

C8_Witness ==
    /\ file_status = "ioerror"
    /\ icon.called /\ icon.ret = NoIcon
    /\ outcome = "icons" /\ Len(frame) = 1

\* the arguments of the update call that drew the frame
Drawn == outcome = "drawn"
Arg(key, default) == Get(snapshot.v.oven_state, key, default)

First12(s) == SubSeq(s, 1, Min(12, Len(s)))

\* C9: line 1 is the state label alone when there is no profile name, and else
\* the label, " - " and the first 12 characters of the profile name.
C9_StateLine ==
    Drawn =>
        LET label == Arg("state", Val("IDLE")).v
            profile == Arg("profile", PyNone)
        IN  /\ frame[1].pos = <<0, 0>>
            /\ frame[1].text = IF profile.none \/ profile.v = "" THEN label
                               ELSE label \o " - " \o First12(profile.v)

C9_Witness ==
    /\ Drawn
    /\ ~Arg("profile", PyNone).none
    /\ Len(Arg("profile", PyNone).v) > 12
    /\ frame[1].text = "RUNNING - Slow Bisque "

\* the oven state of example_usage, display.py lines 283-293
ExampleState ==
    [state |-> Val("RUNNING"), profile |-> Val("Cone 6 Glaze"), temperature |-> Val(1250),
     target |-> Val(1300), runtime |-> Val(3600), totaltime |-> Val(7200),
     heat_rate |-> Val(150)]

ExampleDrawn == Drawn /\ snapshot = Val([oven_state |-> ExampleState, temp_scale |-> "f"])

\* C10 as claimed: the example state gives the state line "RUNNING - Cone 6 Glaz",
\* the temp and target lines, "Time: 01:00:00 / 02:00:00" and "Rem: 01:00:00 150°/hr".
C10_AsClaimed ==
    ExampleDrawn =>
        Texts(frame) = << "RUNNING - Cone 6 Glaz", "Temp: 1250°F", "Targ: 1300°F",
                          "Time: 01:00:00 / 02:00:00", "Rem: 01:00:00 150°/hr" >>

\* C10 amended: the example state gives the state line "RUNNING - Cone 6 Glaze"
\* (the 12 characters of the profile name in full), "Temp: 1250°F", "Targ: 1300°F",
\* "Time: 01:00:00 / 02:00:00" and "Rem: 01:00:00 150°/hr".
C10_ExampleFrame ==
    ExampleDrawn =>
        Texts(frame) = << "RUNNING - Cone 6 Glaze", "Temp: 1250°F", "Targ: 1300°F",
                          "Time: 01:00:00 / 02:00:00", "Rem: 01:00:00 150°/hr" >>

C10_Witness == ExampleDrawn /\ Len(frame) = 5 /\ Len(ExampleState.profile.v) = 12

(***************************************************************************)
(* What the claims say of the time and rate lines                          *)
(***************************************************************************)
StartsWith(text, prefix) ==
    Len(text) >= Len(prefix) /\ SubSeq(text, 1, Len(prefix)) = prefix

EndsWith(text, suffix) ==
    Len(text) >= Len(suffix)
        /\ SubSeq(text, Len(text) - Len(suffix) + 1, Len(text)) = suffix

\* the frame has a text that starts with prefix
HasLine(prefix) == \E k \in 1..Len(frame) : StartsWith(frame[k].text, prefix)

\* the kiln is RUNNING or PAUSED and has a positive total time
InTimedState ==
    /\ Arg("state", Val("IDLE")).v \in {"RUNNING", "PAUSED"}
    /\ Arg("totaltime", Val(0)).v > 0

\* C11: the Time line (at y 36) and the Rem line (at y 48) are drawn exactly when
\* the state is RUNNING or PAUSED and the total time is positive; the Rem line is
\* "Rem: " and format_time(totaltime - runtime), "--:--" when the runtime is past
\* the total time, followed by " <rate>°/hr" exactly when heat_rate > 0.
C11_TimeLines ==
    Drawn =>
        LET runtime == Arg("runtime", Val(0))
            totaltime == Arg("totaltime", Val(0))
            heat_rate == Arg("heat_rate", Val(0))
        IN  /\ HasLine("Time: ") <=> InTimedState
            /\ HasLine("Rem: ") <=> InTimedState
            /\ InTimedState =>
                   /\ Len(frame) = 5
                   /\ frame[4] = Text(0, 36, "Time: " \o format_time(runtime) \o " / "
                                                 \o format_time(totaltime))
                   /\ frame[5].pos = <<0, 48>>
                   /\ StartsWith(frame[5].text,
                                 "Rem: " \o format_time(Val(totaltime.v - runtime.v)))
                   /\ (runtime.v > totaltime.v) => StartsWith(frame[5].text, "Rem: --:--")
                   /\ IF heat_rate.v > 0
                      THEN frame[5].text = "Rem: " \o format_time(Val(totaltime.v - runtime.v))
                                               \o " " \o IntStr(heat_rate.v) \o "°/hr"
                      ELSE /\ frame[5].text = "Rem: " \o format_time(Val(totaltime.v - runtime.v))
                           /\ ~EndsWith(frame[5].text, "°/hr")

C11_Witness ==
    /\ Drawn
    /\ Arg("state", Val("IDLE")) = Val("PAUSED")
    /\ Arg("runtime", Val(0)) = Val(9000) /\ Arg("totaltime", Val(0)) = Val(7200)
    /\ frame[4].text = "Time: 02:30:00 / 02:00:00"
    /\ frame[5].text = "Rem: --:-- 150°/hr"

\* C12: when the state is not RUNNING/PAUSED or the total time is not positive, the
\* frame is the three lines state, temp, target when heat_rate <= 0, and those
\* three and "Rate: <rate>°/hr" at y 36 when heat_rate > 0; no frame has both a
\* Rate line and a Time line.
C12_RateLine ==
    Drawn =>
        LET heat_rate == Arg("heat_rate", Val(0))
        IN  /\ ~InTimedState =>
                   /\ StartsWith(frame[2].text, "Temp: ") /\ StartsWith(frame[3].text, "Targ: ")
                   /\ IF heat_rate.v > 0
                      THEN /\ Len(frame) = 4
                           /\ frame[4] = Text(0, 36, "Rate: " \o IntStr(heat_rate.v) \o "°/hr")
                      ELSE Len(frame) = 3
            /\ ~(HasLine("Rate: ") /\ HasLine("Time: "))

C12_Witness ==
    /\ Drawn
    /\ Arg("state", Val("IDLE")) = Val("IDLE")
    /\ Arg("totaltime", Val(0)) = Val(7200)
    /\ Texts(frame) = << "IDLE", "Temp: 75°C", "Targ: 0°C", "Rate: 150°/hr" >>

(***************************************************************************)
(* What the claims say of format_time                                      *)
(***************************************************************************)
Formatted == ~time_text.none

AllDigits(text) == Len(text) > 0 /\ \A k \in 1..Len(text) : IsDigit(Char(text, k))

\* text is a field of exactly two digits that reads n
TwoDigitField(text, n) == Len(text) = 2 /\ AllDigits(text) /\ IntDec(text) = n

\* text is MM:SS for the minutes and seconds of d
MinSecText(text, d) ==
    /\ Len(text) = 5 /\ Char(text, 3) = ":"
    /\ TwoDigitField(SubSeq(text, 1, 2), (d % 3600) \div 60)
    /\ TwoDigitField(SubSeq(text, 4, 5), d % 60)

UpdateCalled == initialized /\ ~snapshot.none

\* C14: for every oven state, fields missing or None included, update does not
\* raise and draws the frame's lines, "---" standing for a temperature that is
\* None and "--:--" for a time that is None.
C14_LayoutTotal ==
    UpdateCalled =>
        /\ outcome = "drawn"
        /\ Len(frame) >= 3
        /\ Arg("temperature", Val(0)).none => frame[2].text = "Temp: ---"
        /\ (Arg("state", Val("IDLE")).v \in {"RUNNING", "PAUSED"}
                /\ (Arg("runtime", Val(0)).none \/ Arg("totaltime", Val(0)).none))
               => \E k \in 1..Len(frame) :
                      StartsWith(frame[k].text, "Time: ") /\ HasLine("Rem: --:--")

(***************************************************************************)
(* What the claims say of the animation of main                            *)
(***************************************************************************)
Animating == anim_pc # "off" /\ Len(images) > 1

\* the animation's except KeyboardInterrupt has run
Cancelled == Animating /\ anim_pc = "done"

\* C15: the loop over N images shows them in the order 0..N-1, 0..N-1, ...: the
\* k-th image shown (k from 0) is image k mod N, the device shows the image it
\* was handed last, and when a cycle is complete frame_count is N times the
\* number of cycles.
C15_LoopOrder ==
    Animating =>
        LET n == Len(images)
        IN  /\ \A k \in 1..Len(played) : played[k] = (k - 1) % n
            /\ (anim_pc \in {"count", "sleep"})
                   => screen = Showing(Paste(images[((Len(played) - 1) % n) + 1],
                                             <<60, 31>>))
            /\ (anim_pc \in {"call", "paste"}) => frame_count = Len(played)
            /\ (anim_pc = "sleep") => frame_count = Len(played)
            /\ (anim_pc = "sleep" /\ frame_index = n - 1)
                   => frame_count = n * (Len(played) \div n) /\ Len(played) % n = 0

C15_Witness ==
    /\ Animating /\ Len(images) = 3
    /\ anim_pc = "sleep"
    /\ played = <<0, 1, 2, 0, 1, 2>>
    /\ frame_count = 6

Fitted == fit.called /\ ~fit.raised

\* trunc(n * s) for the scale s = min(DisplayWidth / w, DisplayHeight / h) that
\* the code holds as a double
TruncScaled(n, size) == IntOfProduct(n, ScaleOf(size)[1], ScaleOf(size)[2])

\* C19: an image is scaled exactly when it is wider or higher than the display;
\* the scaled size is (trunc(w*s), trunc(h*s)) with s = min(display_w / w,
\* display_h / h), and for every source size the new width is 1..display_w and
\* the new height 1..display_h; an image that fits keeps its size.
C19_ScaleToFit ==
    fit.called =>
        LET w == fit.source[1]
            h == fit.source[2]
        IN  /\ fit.scaled <=> (w > DisplayWidth \/ h > DisplayHeight)
            /\ fit.scaled => fit.size = << TruncScaled(w, fit.source),
                                           TruncScaled(h, fit.source) >>
            /\ ~fit.scaled => fit.size = fit.source
            /\ 1 <= fit.size[1] /\ fit.size[1] <= DisplayWidth
            /\ 1 <= fit.size[2] /\ fit.size[2] <= DisplayHeight

\* the image's lit pixels, moved by offset
Moved(img, offset) == { <<xy[1] + offset[1], xy[2] + offset[2]>> : xy \in img.lit }

\* C20: the image, scaled if it had to be, is pasted at x = (display_w - w) div 2,
\* y = (display_h - h) div 2, a 32x32 image at (48, 16); both offsets are
\* non-negative for every source image, and the pixels of an image that was not
\* scaled are on the display moved by the offset.
C20_Centred ==
    Fitted =>
        LET x == fit.offset[1]
            y == fit.offset[2]
        IN  /\ 2 * x <= DisplayWidth - fit.size[1] /\ DisplayWidth - fit.size[1] < 2 * x + 2
            /\ 2 * y <= DisplayHeight - fit.size[2] /\ DisplayHeight - fit.size[2] < 2 * y + 2
            /\ x >= 0 /\ y >= 0
            /\ (fit.source = <<32, 32>>) => fit.offset = <<48, 16>>
            /\ (anim_pc = "wait" /\ ~fit.scaled)
                   => screen = Showing(NewImage(DisplayWidth, DisplayHeight,
                                                Moved(images[1], fit.offset)))

C20_Witness ==
    /\ Fitted /\ anim_pc = "wait"
    /\ fit.source = <<200, 98>> /\ fit.scaled
    /\ fit.size = <<128, 62>>
    /\ fit.offset = <<0, 1>>
    /\ screen = Showing(NewImage(DisplayWidth, DisplayHeight, {<<0, 1>>}))

(***************************************************************************)
(* What the claims say of ping-pong playback                               *)
(***************************************************************************)
PingPong == anim_pc \in {"pingpong", "stopped"}

\* frame k (from 0) of the order 0..n-1, n-2..1, 0..n-1, ...
PlayOrder(k, n) ==
    IF n = 1 THEN 0
    ELSE LET r == k % (2 * n - 2)
         IN  IF r < n THEN r ELSE (2 * n - 2) - r

\* C16: ping-pong playback of N frames plays 0..N-1, then N-2..1, and repeats: a
\* cycle has 2N-2 frames for N > 1 (0,1,2,3,4,3,2,1 for N = 5) with no endpoint
\* played twice in a row, and for N = 1 the one frame is repeated.
C16_PingPongOrder ==
    PingPong =>
        LET n == Len(images)
        IN  /\ \A k \in 1..Len(played) : played[k] = PlayOrder(k - 1, n)
            /\ (n > 1) => \A k \in 1..(Len(played) - 1) : played[k] # played[k + 1]
            /\ (n > 1) => \A k \in 1..(Len(played) - (2 * n - 2)) :
                              played[k + 2 * n - 2] = played[k]
            /\ (n = 5 /\ Len(played) >= 8) => SubSeq(played, 1, 8) = <<0, 1, 2, 3, 4, 3, 2, 1>>
            /\ (n = 1) => \A k \in 1..Len(played) : played[k] = 0

C16_Witness ==
    /\ PingPong /\ Len(images) = 5
    /\ played = <<0, 1, 2, 3, 4, 3, 2, 1, 0, 1>>
    /\ frame_index = 2 /\ direction = 1

(***************************************************************************)
(* What the claims say of two threads on one display                       *)
(***************************************************************************)
\* the threads with a composition (canvas or transmission) in flight
InFlight == {t \in Threads : render[t].pc # "idle"}

\* C18: on one display no second composition (canvas draw and transmission by
\* update, show_message or clear) begins while one is in flight, whatever the
\* interleaving of the DisplayUpdater thread with another caller.
C18_SingleRenderer == Cardinality(InFlight) <= 1

(***************************************************************************)
(* What the claims say of the image handed to the device                   *)
(***************************************************************************)
\* display_image_on_oled has handed its image to the device
Handed == Len(images) = 1 /\ anim_pc = "wait"

\* the image that is pasted: images[1], scaled when it had to be
PastedIcon == IF fit.scaled THEN Resize(images[1], fit.size) ELSE images[1]

\* C21: the image display_image_on_oled hands to the device has the display's
\* width and height; the pasted rectangle [x, x + w) x [y, y + h) lies inside it;
\* a pixel outside the rectangle is unlit and a pixel inside it is the pixel of
\* the icon, scaled when it had to be, so no icon pixel is clipped or wrapped.
C21_FramebufferExact ==
    Handed =>
        LET x == fit.offset[1]
            y == fit.offset[2]
            w == fit.size[1]
            h == fit.size[2]
            shown == screen.image
        IN  /\ ~screen.cleared /\ shown.size = <<DisplayWidth, DisplayHeight>>
            /\ PastedIcon.size = <<w, h>>
            /\ 0 <= x /\ x + w <= DisplayWidth
            /\ 0 <= y /\ y + h <= DisplayHeight
            /\ \A p \in shown.lit :
                   /\ x <= p[1] /\ p[1] < x + w
                   /\ y <= p[2] /\ p[2] < y + h
                   /\ <<p[1] - x, p[2] - y>> \in PastedIcon.lit
            /\ \A q \in PastedIcon.lit : <<q[1] + x, q[2] + y>> \in shown.lit
            /\ Cardinality(shown.lit) = Cardinality(PastedIcon.lit)

C21_Witness ==
    /\ Handed
    /\ fit.source = <<64, 65>> /\ fit.scaled /\ fit.size = <<63, 64>>
    /\ fit.offset = <<32, 0>>
    /\ screen.image.lit = {<<32, 0>>, <<94, 63>>}

(***************************************************************************)
(* What the claims say of show_message                                     *)
(***************************************************************************)
MessageDrawn == outcome = "message"

\* C22: show_message draws one text, at x 0 and y 12 * line: the message itself
\* when it has at most 21 characters, and its first 21 characters when it is
\* longer, on one line.
C22_MessageCut ==
    MessageDrawn =>
        LET message == snapshot.v.message.v
            line == snapshot.v.line
        IN  /\ Len(frame) = 1
            /\ frame[1].op = "text" /\ frame[1].pos = <<0, 12 * line>>
            /\ Len(frame[1].text) <= 21
            /\ IF Len(message) <= 21 THEN frame[1].text = message
               ELSE /\ Len(frame[1].text) = 21
                    /\ \A k \in 1..21 : Char(frame[1].text, k) = Char(message, k)

C22_Witness ==
    /\ MessageDrawn
    /\ snapshot.v.message = Val("Kiln Controller - Slow Bisque 04")
    /\ frame = << Text(0, 36, "Kiln Controller - Slo") >>

(***************************************************************************)
(* What the claims say of a display that is not initialized                *)
(***************************************************************************)
\* C24: a KilnDisplay that is initialized has its device handle; one that is not
\* (disabled in the config, or a failed bring-up) has update, clear and
\* show_message return at once, nothing reaching the device; and none of the
\* three lets an exception out to its caller.
C24_GuardedDisplay ==
    /\ initialized => ~device.none
    /\ ~initialized => (frame = <<>> /\ outcome \in {"none", "skipped"})
    /\ outcome # "raised"

C24_Witness ==
    /\ ~initialized /\ ~device.none
    /\ outcome = "skipped"
    /\ snapshot = Val([message |-> Val("Kiln Controller"), line |-> 2])
    /\ frame = <<>>

(***************************************************************************)
(* What the claims say of the two decoders side by side                    *)
(***************************************************************************)
\* the source has a line with <digits>x<digits>px
Declared(text) ==
    \E k \in 1..Len(SplitLines(text)) : DimMatches(SplitLines(text)[k]) # {}

BothDecoded == IconLoaded /\ image.called

\* C23: on a source that declares its dimensions load_icon_from_hex and
\* parse_hex_data with hex_to_image give a bitmap of the same dimensions and the
\* same pixels; without a declaration one is 16x16 and the other 64x64.
C23_DecodersAgree ==
    BothDecoded =>
        /\ ~icon.raised /\ ~image.raised
        /\ Declared(hex_text) => (icon.ret.size = ImageDim /\ icon.ret = image.ret)
        /\ (icon.ret # image.ret) => ~Declared(hex_text)
        /\ ~Declared(hex_text)
               => /\ icon.ret.size = <<16, 16>>
                  /\ image.ret.size = <<64, 64>>

C23_Witness ==
    /\ BothDecoded
    /\ Declared(hex_text)
    /\ CommentLine(SplitLines(hex_text)[1]) /\ FindAllHex(SplitLines(hex_text)[1]) # <<>>
    /\ icon.ret = image.ret
    /\ icon.ret.size = <<3, 3>> /\ icon.ret.lit # {}

(***************************************************************************)
(* What the claims say of HomeAssistantMQTT                                *)
(***************************************************************************)
\* C25: connected is True only through on_connect with rc = 0; no client.publish
\* call is made while connected is False, whatever the interleaving of the
\* callbacks with the run loop; and a cycle publishes all eight topics or none.
PublishedConnected == \A k \in 1..Len(sent) : sent[k].connected

C25_PublishWhileConnected ==
    /\ client.none => ~connected
    /\ PublishedConnected
    /\ (mqtt_pc = "sleep") => Len(sent) \in {0, 8}

(***************************************************************************)
(* What the claims say of DisplayUpdater                                   *)
(***************************************************************************)
\* C26: the loop of DisplayUpdater never ends on an error: after any exception
\* it sleeps one interval and, with an initialized display, reads the oven
\* state again, forever; with an uninitialized display it never calls
\* oven.get_state() or display.update().
C26_UpdaterKeepsRunning ==
    /\ [](updater_pc # "dead")
    /\ [][updater_pc = "except" => updater_pc' \in {"except", "sleep"}]_vars
    /\ [](initialized => <>(updater_pc = "get_state"))
    /\ []((initialized /\ updater_pc = "except") => <>(updater_pc = "get_state"))
    /\ [](~initialized => /\ updater_pc \notin {"get_state", "update", "except"}
                          /\ state_read = PyNone
                          /\ snapshot = PyNone)

\* after a caught exception the loop has read the state again and is about to
\* update the display
C26_Witness ==
    /\ initialized
    /\ caught
    /\ updater_pc = "update"
    /\ ~state_read.none

====
